---- MODULE Spec2Model ----
(***************************************************************************)
(* Model of jules-scratch/verification/verify_transcription.py.            *)
(*                                                                         *)
(* The script is one straight-line function run(playwright), lines 3-10,   *)
(* called inside "with sync_playwright() as playwright" (lines 12-13).     *)
(* Every library call is modelled as a call that is begun, may take time   *)
(* (the polling calls click and wait_for_selector), and then either        *)
(* returns or raises.  run() contains no try/except/finally, so a raise    *)
(* leaves run() at once and reaches the with statement's exit.             *)
(*                                                                         *)
(* The environment is the target server at http://localhost:5173/ (is it   *)
(* reachable, which document does it serve, what does its click handler    *)
(* do and after how long) and the local machine (do launch, new_page and   *)
(* screenshot succeed).  The file system survives from one run of the      *)
(* script to the next.                                                     *)
(***************************************************************************)
EXTENDS Integers, Sequences, FiniteSets, TLC

\* Number of polling rounds the library allows click / wait_for_selector
\* before it gives up (the library default timeout, counted in polls).
TimeoutTicks == 2

\* Number of successive executions of the script that are explored.
MaxRuns == 2

\* exitStatus while the process is still running.
NotExited == -1

VARIABLES
    pc,          \* statement the script is at
    active,      \* set of library calls of run() that are in progress
    started,     \* per step: how many times it was begun in this run
    completed,   \* steps of this run that returned normally
    log,         \* steps of this run in the order they were begun
    err,         \* the unhandled exception of this run, or NoErr
    exitStatus,  \* process exit status once pc = "done"
    driver,      \* the playwright driver of the with statement
    browser,     \* the browser session
    page,        \* the page handle
    dom,         \* the document the page shows
    pending,     \* polls until the click handler's effect lands; -1: none
    clock,       \* polls spent in the current polling call
    env,         \* behaviour of the target server in this run
    fs,          \* output directory: set of [path, content]
    run,         \* ordinal of the current execution of the script
    captures     \* number of screenshots written over all executions

vars == <<pc, active, started, completed, log, err, exitStatus, driver,
          browser, page, dom, pending, clock, env, fs, run, captures>>

----------------------------------------------------------------------------
(* The statements of the script *)

Steps == {"launch", "new_page", "goto", "click", "wait_for_selector",
          "screenshot", "close"}

PageOps == {"goto", "click", "wait_for_selector", "screenshot"}

\* Control flow of lines 4-10: each statement is followed by the next line;
\* after browser.close() run() returns and the with block is left.
\* Faulty orderings of the same statements, used to test that the ordering
\* properties depend on the order of lines 4-10.
NextStmtCloseEarly(s) ==
    CASE s = "launch"            -> "new_page"
      [] s = "new_page"          -> "goto"
      [] s = "goto"              -> "click"
      [] s = "click"             -> "wait_for_selector"
      [] s = "wait_for_selector" -> "close"
      [] s = "close"             -> "screenshot"
      [] s = "screenshot"        -> "with_exit"

NextStmtWaitFirst(s) ==
    CASE s = "launch"            -> "new_page"
      [] s = "new_page"          -> "goto"
      [] s = "goto"              -> "wait_for_selector"
      [] s = "wait_for_selector" -> "click"
      [] s = "click"             -> "screenshot"
      [] s = "screenshot"        -> "close"
      [] s = "close"             -> "with_exit"

NextStmt(s) ==
    CASE s = "launch"            -> "new_page"
      [] s = "new_page"          -> "goto"
      [] s = "goto"              -> "click"
      [] s = "click"             -> "wait_for_selector"
      [] s = "wait_for_selector" -> "screenshot"
      [] s = "screenshot"        -> "close"
      [] s = "close"             -> "with_exit"

\* Where control goes when statement s raises: run() has no handler, so the
\* exception propagates out of run() to the with statement, whose exit runs.
\* Faulty variant: the exception is swallowed and the script carries on.
AfterRaiseSwallow(s) == NextStmt(s)

AfterRaise(s) == "with_exit"

\* An unhandled exception makes the interpreter exit with status 1.
NoErr == [step |-> "none", cause |-> "none"]

\* Faulty variant: the exception does not reach the exit status.
ExitStatusAlwaysZero(e) == 0

ExitStatus(e) == IF e = NoErr THEN 0 ELSE 1

----------------------------------------------------------------------------
(* Documents and selectors *)

\* An element: its tag, the number of its child nodes, the length of its
\* value property, and whether it can be clicked.
Button(enabled) ==
    [tag |-> "button", children |-> 1, value |-> 0, enabled |-> enabled]

Textarea(children, value) ==
    [tag |-> "textarea", children |-> children, value |-> value,
     enabled |-> TRUE]

\* "button" (line 7) and "textarea:not(:empty)" (line 8).
ButtonSel == [tag |-> "button", notEmpty |-> FALSE]

\* Faulty variant of line 8: "textarea" without :not(:empty).
TextareaSelAny == [tag |-> "textarea", notEmpty |-> FALSE]

TextareaSel == [tag |-> "textarea", notEmpty |-> TRUE]

\* A type selector matches on the tag; :not(:empty) matches an element that
\* has at least one child node.  The value property is not a child node.
\* Faulty variant: the tag is not compared.
MatchesAnyTag(sel, el) == sel.notEmpty => el.children > 0

Matches(sel, el) ==
    /\ el.tag = sel.tag
    /\ sel.notEmpty => el.children > 0

Found(sel, d) == \E el \in d : Matches(sel, el)

Actionable(sel, d) == \E el \in d : Matches(sel, el) /\ el.enabled

\* A text area holds text when it has text content or a non-empty value.
HasContent(el) == el.tag = "textarea" /\ (el.children > 0 \/ el.value > 0)

----------------------------------------------------------------------------
(* The target server *)

ButtonVariants == {{}, {Button(FALSE)}, {Button(TRUE)}}

TextareaVariants == {{}, {Textarea(0, 0)}, {Textarea(1, 1)}}

Documents == {b \cup t : b \in ButtonVariants, t \in TextareaVariants}

\* What the page's click handler does: nothing, set the text area's text
\* content, or set the text area's value property.
ClickEffects == {"none", "setText", "setValue"}

Envs ==
    [reachable : {TRUE}, document : Documents, onClick : {"none"},
     delay : {0}]
    \cup
    [reachable : {TRUE}, document : Documents,
     onClick : ClickEffects \ {"none"}, delay : 0..TimeoutTicks]
    \cup
    [reachable : {FALSE}, document : {{}}, onClick : {"none"}, delay : {0}]

Others(d) == {el \in d : el.tag # "textarea"}

ApplyEffect(d, kind) ==
    CASE kind = "setText"  -> Others(d) \cup {Textarea(1, 1)}
      [] kind = "setValue" ->
            Others(d) \cup
            (IF \E el \in d : el.tag = "textarea"
               THEN {Textarea(el.children, 1) : el \in d \ Others(d)}
               ELSE {Textarea(0, 1)})
      [] OTHER -> d

----------------------------------------------------------------------------
(* The output file *)

OutPath == "jules-scratch/verification/verification.png"

\* Faulty variant: a path that differs from run to run.
ScreenshotPathPerRun(r) ==
    IF r = 1 THEN OutPath ELSE "jules-scratch/verification/verification-n.png"

ScreenshotPath(r) == OutPath

\* Writing a file replaces whatever was at that path.
WriteFile(files, path, content) ==
    {f \in files : f.path # path} \cup {[path |-> path, content |-> content]}

StaleFile == [path |-> OutPath, content |-> [run |-> 0, shot |-> {}]]

----------------------------------------------------------------------------
(* The polling timeout of click and wait_for_selector *)

\* Faulty variant: the timeout is disabled.
TimedOutNever(c) == FALSE

TimedOut(c) == c >= TimeoutTicks

----------------------------------------------------------------------------
Init ==
    /\ pc = "with_enter"
    /\ active = {}
    /\ started = [s \in Steps |-> 0]
    /\ completed = {}
    /\ log = <<>>
    /\ err = NoErr
    /\ exitStatus = NotExited
    /\ driver = "none"
    /\ browser = "none"
    /\ page = "none"
    /\ dom = {}
    /\ pending = -1
    /\ clock = 0
    /\ env \in Envs
    /\ fs \in {{}, {StaleFile}}
    /\ run = 1
    /\ captures = 0

\* A library call of run() is entered.
Begin(s) ==
    /\ pc = s
    /\ s \notin active
    /\ active' = active \cup {s}
    /\ started' = [started EXCEPT ![s] = @ + 1]
    /\ log' = Append(log, s)
    /\ clock' = 0

\* The call returns normally; control moves to the next statement.
Return(s) ==
    /\ active' = active \ {s}
    /\ completed' = completed \cup {s}
    /\ pc' = NextStmt(s)
    /\ err' = err

\* The call raises; nothing in run() catches it.
Raise(s, cause) ==
    /\ active' = active \ {s}
    /\ completed' = completed
    /\ pc' = AfterRaise(s)
    /\ err' = [step |-> s, cause |-> cause]

\* Line 12, entering the with statement: the driver is started.
Enter ==
    /\ pc = "with_enter"
    /\ \E ok \in BOOLEAN :
          IF ok
            THEN /\ driver' = "running"
                 /\ pc' = "launch"
                 /\ err' = err
                 /\ exitStatus' = exitStatus
            ELSE /\ driver' = driver
                 /\ pc' = "done"
                 /\ err' = [step |-> "with_enter", cause |-> "DriverError"]
                 /\ exitStatus' = ExitStatus(err')
    /\ UNCHANGED <<active, started, completed, log, browser, page, dom,
                   pending, clock, env, fs, run, captures>>

\* Line 4: browser = playwright.chromium.launch()
Launch ==
    \/ /\ Begin("launch")
       /\ UNCHANGED <<pc, completed, err, exitStatus, driver, browser, page,
                      dom, pending, env, fs, run, captures>>
    \/ /\ "launch" \in active
       /\ \E ok \in BOOLEAN :
             IF ok THEN Return("launch") /\ browser' = "open"
                   ELSE Raise("launch", "LaunchError") /\ browser' = browser
       /\ UNCHANGED <<started, log, exitStatus, driver, page, dom, pending,
                      clock, env, fs, run, captures>>

\* Line 5: page = browser.new_page()
NewPage ==
    \/ /\ Begin("new_page")
       /\ UNCHANGED <<pc, completed, err, exitStatus, driver, browser, page,
                      dom, pending, env, fs, run, captures>>
    \/ /\ "new_page" \in active
       /\ \E ok \in BOOLEAN :
             IF ok /\ browser = "open"
               THEN Return("new_page") /\ page' = "open"
               ELSE Raise("new_page", "PageCreationError") /\ page' = page
       /\ UNCHANGED <<started, log, exitStatus, driver, browser, dom,
                      pending, clock, env, fs, run, captures>>

\* Line 6: page.goto("http://localhost:5173/")
Goto ==
    \/ /\ Begin("goto")
       /\ UNCHANGED <<pc, completed, err, exitStatus, driver, browser, page,
                      dom, pending, env, fs, run, captures>>
    \/ /\ "goto" \in active
       /\ IF env.reachable /\ page = "open"
            THEN Return("goto") /\ dom' = env.document
            ELSE Raise("goto", "NavigationError") /\ dom' = dom
       /\ UNCHANGED <<started, log, exitStatus, driver, browser, page,
                      pending, clock, env, fs, run, captures>>

\* Line 7: page.click("button").  The library polls for an element that
\* matches and can be clicked, and gives up when the timeout has passed.
Click ==
    \/ /\ Begin("click")
       /\ UNCHANGED <<pc, completed, err, exitStatus, driver, browser, page,
                      dom, pending, env, fs, run, captures>>
    \/ /\ "click" \in active
       /\ IF page = "open" /\ Actionable(ButtonSel, dom)
            THEN /\ Return("click")
                 /\ IF env.onClick = "none"
                      THEN dom' = dom /\ pending' = pending
                      ELSE IF env.delay = 0
                             THEN /\ dom' = ApplyEffect(dom, env.onClick)
                                  /\ pending' = pending
                             ELSE dom' = dom /\ pending' = env.delay
            ELSE /\ TimedOut(clock) \/ page # "open"
                 /\ Raise("click",
                          IF Found(ButtonSel, dom)
                            THEN "ElementNotInteractableError"
                            ELSE "ElementNotFoundError")
                 /\ dom' = dom /\ pending' = pending
       /\ UNCHANGED <<started, log, exitStatus, driver, browser, page,
                      clock, env, fs, run, captures>>

\* Line 8: page.wait_for_selector("textarea:not(:empty)")
WaitForSelector ==
    \/ /\ Begin("wait_for_selector")
       /\ UNCHANGED <<pc, completed, err, exitStatus, driver, browser, page,
                      dom, pending, env, fs, run, captures>>
    \/ /\ "wait_for_selector" \in active
       /\ IF page = "open" /\ Found(TextareaSel, dom) /\ ~TimedOut(clock)
            THEN Return("wait_for_selector")
            ELSE /\ TimedOut(clock) \/ page # "open"
                 /\ Raise("wait_for_selector", "TimeoutError")
       /\ UNCHANGED <<started, log, exitStatus, driver, browser, page, dom,
                      pending, clock, env, fs, run, captures>>

\* One polling round of click or wait_for_selector passes without the
\* awaited element; meanwhile the page's click handler may finish.
Tick ==
    /\ \/ "click" \in active /\ ~Actionable(ButtonSel, dom)
       \/ "wait_for_selector" \in active /\ ~Found(TextareaSel, dom)
    /\ page = "open"
    /\ clock < TimeoutTicks
    /\ clock' = clock + 1
    /\ IF pending = 1
         THEN dom' = ApplyEffect(dom, env.onClick) /\ pending' = -1
         ELSE /\ dom' = dom
              /\ pending' = IF pending > 1 THEN pending - 1 ELSE pending
    /\ UNCHANGED <<pc, active, started, completed, log, err, exitStatus,
                   driver, browser, page, env, fs, run, captures>>

\* Line 9: page.screenshot(path="jules-scratch/verification/verification.png")
Screenshot ==
    \/ /\ Begin("screenshot")
       /\ UNCHANGED <<pc, completed, err, exitStatus, driver, browser, page,
                      dom, pending, env, fs, run, captures>>
    \/ /\ "screenshot" \in active
       /\ \E ok \in BOOLEAN :
             IF ok /\ page = "open"
               THEN /\ Return("screenshot")
                    /\ fs' = WriteFile(fs, ScreenshotPath(run),
                                       [run |-> run, shot |-> dom])
                    /\ captures' = captures + 1
               ELSE /\ Raise("screenshot", "CaptureError")
                    /\ fs' = fs
                    /\ captures' = captures
       /\ UNCHANGED <<started, log, exitStatus, driver, browser, page, dom,
                      pending, clock, env, run>>

\* Line 10: browser.close().  Closing the session also releases its page.
Close ==
    \/ /\ Begin("close")
       /\ UNCHANGED <<pc, completed, err, exitStatus, driver, browser, page,
                      dom, pending, env, fs, run, captures>>
    \/ /\ "close" \in active
       /\ Return("close")
       /\ browser' = "closed"
       /\ page' = IF page = "open" THEN "closed" ELSE page
       /\ UNCHANGED <<started, log, exitStatus, driver, dom, pending, clock,
                      env, fs, run, captures>>

\* Lines 12-13, leaving the with statement (normally or by an exception):
\* the driver is stopped, which takes down a browser that run() left open
\* without browser.close() having been called; then the process ends.
ExitWith ==
    /\ pc = "with_exit"
    /\ driver' = "stopped"
    /\ browser' = IF browser = "open" THEN "killed" ELSE browser
    /\ page' = IF page = "open" THEN "killed" ELSE page
    /\ pc' = "done"
    /\ exitStatus' = ExitStatus(err)
    /\ UNCHANGED <<active, started, completed, log, err, dom, pending,
                   clock, env, fs, run, captures>>

\* The script is executed again; only the file system is carried over.
Rerun ==
    /\ pc = "done"
    /\ run < MaxRuns
    /\ run' = run + 1
    /\ pc' = "with_enter"
    /\ active' = {}
    /\ started' = [s \in Steps |-> 0]
    /\ completed' = {}
    /\ log' = <<>>
    /\ err' = NoErr
    /\ exitStatus' = NotExited
    /\ driver' = "none"
    /\ browser' = "none"
    /\ page' = "none"
    /\ dom' = {}
    /\ pending' = -1
    /\ clock' = 0
    /\ env' \in Envs
    /\ UNCHANGED <<fs, captures>>

Next ==
    \/ Enter
    \/ Launch
    \/ NewPage
    \/ Goto
    \/ Click
    \/ WaitForSelector
    \/ Tick
    \/ Screenshot
    \/ Close
    \/ ExitWith
    \/ Rerun

Spec == Init /\ [][Next]_vars

\* Every library call the script is blocked in eventually returns or raises,
\* and time passes while a call polls.  Running the script again is up to
\* the user and is not forced.
FairSpec ==
    /\ Spec
    /\ WF_vars(Enter) /\ WF_vars(Launch) /\ WF_vars(NewPage)
    /\ WF_vars(Goto) /\ WF_vars(Click) /\ WF_vars(WaitForSelector)
    /\ WF_vars(Tick) /\ WF_vars(Screenshot) /\ WF_vars(Close)
    /\ WF_vars(ExitWith)

----------------------------------------------------------------------------
(* Properties *)

ThisRunWroteScreenshot ==
    \E f \in fs : f.path = OutPath /\ f.content.run = run

\* C1: a run in which launch succeeded has had its session closed by
\* browser.close() (step 7) by the time the script has terminated, also when
\* one of the steps 2-6 failed.
C1_SessionClosedAtExit ==
    (pc = "done" /\ "launch" \in completed) => browser = "closed"

\* A server is healthy when it is reachable, serves a clickable button, and
\* its click handler gives a text area content before the timeout.
HealthyServer(e) ==
    /\ e.reachable
    /\ Button(TRUE) \in e.document
    /\ e.onClick \in {"setText", "setValue"}
    /\ e.delay < TimeoutTicks

LocalSteps == {"with_enter", "launch", "new_page", "screenshot"}

\* C2: against a healthy server, a run that is not stopped by a failure of
\* the local machine (driver, launch, page creation, capture) has written
\* the screenshot at the fixed path and exits with status 0.
C2_HealthyRunSucceeds ==
    (pc = "done" /\ HealthyServer(env) /\ err.step \notin LocalSteps)
        => (exitStatus = 0 /\ ThisRunWroteScreenshot)

\* C3: the exit status is 0 exactly when all seven steps returned normally
\* in that run; otherwise it is non-zero.
C3_ExitZeroIffAllSteps ==
    pc = "done" => /\ exitStatus \in {0, 1}
                   /\ exitStatus = 0 <=> completed = Steps

C3_Witness == pc = "done" /\ exitStatus = 0 /\ completed = Steps

NoButton(d) == \A el \in d : el.tag # "button"

\* C4: when the served page has no button, click raises element-not-found,
\* the script exits non-zero, and neither wait_for_selector nor screenshot is
\* ever begun in that run.
C4_NoButtonStopsAtClick ==
    (env.reachable /\ NoButton(env.document))
        => /\ started["wait_for_selector"] = 0
           /\ started["screenshot"] = 0
           /\ (pc = "done" /\ "goto" \in completed)
                 => /\ err = [step |-> "click",
                              cause |-> "ElementNotFoundError"]
                    /\ exitStatus # 0

C4_Witness ==
    /\ pc = "done"
    /\ NoButton(env.document)
    /\ err = [step |-> "click", cause |-> "ElementNotFoundError"]

\* No text area of the page holds text before the wait times out: none does
\* when the page is served, and the click handler adds none in time.
NeverPopulated(e) ==
    /\ \A el \in e.document : ~HasContent(el)
    /\ e.onClick = "none" \/ e.delay >= TimeoutTicks

C6_UnreachableStopsAtGoto ==
    ~env.reachable
        => /\ started["goto"] <= 1
           /\ started["click"] = 0
           /\ started["wait_for_selector"] = 0
           /\ started["screenshot"] = 0
           /\ (pc = "done" /\ started["goto"] = 1)
                 => /\ err = [step |-> "goto", cause |-> "NavigationError"]
                    /\ exitStatus # 0

C6_Witness ==
    pc = "done" /\ ~env.reachable /\ err.step = "goto" /\ exitStatus = 1

\* C7: however often the script has run, the output directory holds at most
\* one file, at the fixed path, and once a run has captured, that file is
\* the capture of that run: a capture replaces the previous one.
C7_ScreenshotOverwrites ==
    /\ \A f \in fs : f.path = OutPath
    /\ Cardinality(fs) <= 1
    /\ "screenshot" \in completed
          => fs = {[path |-> OutPath,
                    content |-> [run |-> run, shot |-> dom]]}

C7_Witness == pc = "done" /\ run = 2 /\ captures = 2 /\ exitStatus = 0

ClaimedOrder == <<"launch", "new_page", "goto", "click", "wait_for_selector",
                  "screenshot", "close">>

\* C8: the steps are begun in the fixed order, each at most once, each only
\* after the one before it returned normally, and never two at a time.
C8_StrictlySequential ==
    /\ Cardinality(active) <= 1
    /\ Len(log) <= Len(ClaimedOrder)
    /\ \A i \in 1..Len(log) : log[i] = ClaimedOrder[i]
    /\ \A i \in 2..Len(log) : ClaimedOrder[i - 1] \in completed
    /\ \A s \in Steps : started[s] <= 1
    /\ \A s \in active : s = log[Len(log)] /\ s \notin completed

C8_Witness == active = {"close"} /\ Len(log) = 7

\* C9: while goto, click, wait_for_selector or screenshot is in progress,
\* the browser session that made the page exists and has not been closed.
C9_PageUsedOnlyWhileSessionOpen ==
    \A s \in active \cap PageOps : browser = "open" /\ page = "open"

C9_Witness == "screenshot" \in active /\ browser = "open" /\ page = "open"

\* C10: every run terminates: from any point of a run the script reaches
\* its end with an exit status.
C10_EveryRunTerminates ==
    (pc # "done") ~> (pc = "done" /\ exitStatus \in {0, 1})

C10_Witness ==
    /\ pc = "done"
    /\ err = [step |-> "wait_for_selector", cause |-> "TimeoutError"]
    /\ clock = TimeoutTicks
    /\ env.onClick = "none"

====
